---- MODULE Spec2Model ----
(***************************************************************************)
(* State-machine model of OledLogger (src/src/OledLogger.cpp, .h): the     *)
(* static members, the FreeRTOS queue and the SSD1306 display objects they *)
(* point to, the begin() call, the task producers inside logf(), the       *)
(* interrupt producer logFromISR() and the consumer task taskFunc().       *)
(*                                                                         *)
(* A text is the C string held in a char[64] buffer: the sequence of the   *)
(* bytes that precede the first terminator.  The queue, the line buffer    *)
(* and the display hold texts; SpecText follows one message at a time      *)
(* through the 64-byte buffers themselves (variable `text`) and relates    *)
(* them to the texts.                                                      *)
(*                                                                         *)
(* History variables: sender (the producer calls made), enqueued (the      *)
(* messages in the order of their successful enqueue), received (in the    *)
(* order of reception), lost (per call, the messages it evicted or         *)
(* dropped), isrRes and lastBegin (the last return values).                *)
(***************************************************************************)
EXTENDS Integers, Sequences, FiniteSets, TLC

\* ------------------------------------------------------------ constants
MsgCap == 64
MAX_LINES == 16
LINE_HEIGHT == 8
NULL == 0

\* ------------------------------------------------------------ bounds
\* begin calls in SpecRebegin; largest queue_len argument in Spec; producer
\* calls in Spec; producer calls in SpecRebegin
MaxBegins == 2
MaxQueueLen == 2
MaxMsgs == 3
LifeMsgs == 2
\* longest argument text in SpecText
MaxInputLen == 66
\* producer calls in SpecRows
RowMsgs == 4

TaskProducers == {"t1", "t2"}
QueueLens == 0..MaxQueueLen
Heights == {8, 16}
Ids == 1..MaxBegins
LifeQueueLens == {0, 2}
LifeHeights == {16}
RowHeights == {0, 24, 136}

VARIABLES
  _queue, _display, _taskHandle, _queue_len, _height,
  queues, displays,
  lines, initOnce,
  tasks,
  prod,
  bpc, bargs, nbegins,
  nmsgs,
  fault,
  isrRes, lastBegin, everOk, sender, received, lost, enqueued,
  text

statics == <<_queue, _display, _taskHandle, _queue_len, _height>>
heap == <<queues, displays>>
consumerVars == <<lines, initOnce, tasks>>
beginVars == <<bpc, bargs, nbegins, lastBegin, everOk>>
callVars == <<nmsgs, sender>>
vars == <<_queue, _display, _taskHandle, _queue_len, _height, queues, displays,
          lines, initOnce, tasks, prod, bpc, bargs, nbegins, nmsgs, fault,
          isrRes, lastBegin, everOk, sender, received, lost, enqueued, text>>

\* ------------------------------------------------------------ helpers
Min(a, b) == IF a < b THEN a ELSE b
Max(a, b) == IF a > b THEN a ELSE b

Blank == << >>

\* The argument of the n-th producer call: the one-letter texts "A", "B", ...
Raw(n) == << 64 + n >>

\* vsnprintf(m.txt, sizeof(m.txt), ...): at most MsgCap-1 bytes are stored.
Vsnprintf(raw) == SubSeq(raw, 1, Min(Len(raw), MsgCap - 1))

\* strncpy(m.txt, utf8msg, sizeof(m.txt) - 1); m.txt[sizeof(m.txt) - 1] = '\0'
StrncpyISR(raw) == SubSeq(raw, 1, Min(Len(raw), MsgCap - 1))

\* strncpy(lines[w], incoming.txt, 64); lines[w][63] = '\0'
StrncpyLine(txt) == SubSeq(txt, 1, Min(Len(txt), MsgCap - 1))

\* The sanitation loop: every byte below 0x20 before the terminator becomes '?'.
Sanitize(txt) == [i \in 1..Len(txt) |-> IF txt[i] < 32 THEN 63 ELSE txt[i]]

\* Faulty variant: the argument is stored as it comes
QueueLenAsGiven(queue_len) == queue_len

\* _queue_len = (queue_len < 1) ? 1 : queue_len
QueueLenClamp(queue_len) == IF queue_len < 1 THEN 1 ELSE queue_len

\* LINES = max(1, min(_height / LINE_HEIGHT, MAX_LINES))
LinesFor(height) == Max(1, Min(height \div LINE_HEIGHT, MAX_LINES))

\* ------------------------------------------------------------ objects
NoQueue == [state |-> "none", cap |-> 0, items |-> << >>]
NoDisplay == [state |-> "none", canvas |-> << >>, shown |-> << >>]
\* `ops` is the list of the calls the task has made on the display since its
\* last receive, `presents` the number of its display() calls
NoTask == [pc |-> "none", LINES |-> 0, writeIndex |-> -1, incoming |-> Blank,
           waitq |-> NULL, i |-> 0, ops |-> << >>, presents |-> 0]
IdleProd == [pc |-> "idle", m |-> Blank, id |-> 0]

BlankRows(n) == [r \in 1..n |-> Blank]

LiveQueue(h) == h # NULL /\ queues[h].state = "live"
LiveDisplay(d) == d # NULL /\ displays[d].state = "live"

\* Faulty variant: the last slot of the queue is never given out
QueueHasRoomButOne(q) == Len(q.items) + 1 < q.cap

\* xQueueSend(q, &m, 0) / xQueueSendFromISR: accepted iff the queue is not full
QueueHasRoom(q) == Len(q.items) < q.cap
\* Faulty variant: the new message is put at the head of the queue
QueuePutFront(q, m) == [q EXCEPT !.items = <<m>> \o @]

\* a successful xQueueSend / xQueueSendFromISR: the message joins at the tail
QueuePut(q, m) == [q EXCEPT !.items = Append(@, m)]

\* Faulty variant: the newest entry leaves instead of the oldest
EvictNewest(q) == [q EXCEPT !.items = SubSeq(@, 1, Len(@) - 1)]

\* Faulty variant: the eviction is repeated until the queue is empty
EvictAll(q) == [q EXCEPT !.items = << >>]

\* xQueueReceive(q, &tmp, 0) on a non-empty queue: the oldest entry leaves
EvictOldest(q) == [q EXCEPT !.items = Tail(@)]

\* Faulty variant: only the queue handle is tested
isReadyQueueOnly == _queue # NULL

\* bool OledLogger::isReady()
isReady == (_queue # NULL) /\ (_display # NULL)

\* ------------------------------------------------------------ char[64] buffers
\* A buffer is the whole array, terminator and the bytes behind it included;
\* an argument string is given by its bytes, the terminator left out.
RECURSIVE FirstNul(_, _)
FirstNul(buf, i) ==
  IF i > Len(buf) THEN i
  ELSE IF buf[i] = 0 THEN i
  ELSE FirstNul(buf, i + 1)

Terminated(buf) == \E i \in 1..Len(buf) : buf[i] = 0

\* The C string a buffer holds
Text(buf) == SubSeq(buf, 1, FirstNul(buf, 1) - 1)

\* An array of MsgCap bytes all of one value (a local array before it is
\* written holds whatever the stack held; a static array starts zeroed)
Filled(b) == [i \in 1..MsgCap |-> b]

\* vsnprintf(buf, size, ...) with `out` the formatted output: at most size-1
\* bytes and a terminator are written, the rest of buf is left as it was
vsnprintf(buf, size, out) ==
  LET n == Min(Len(out), size - 1) IN
    [i \in 1..Len(buf) |-> IF i <= n THEN out[i] ELSE IF i = n + 1 THEN 0 ELSE buf[i]]

\* strncpy(dst, src, n): the bytes of src up to n, then zeros up to n
strncpy(dst, src, n) ==
  [i \in 1..Len(dst) |-> IF i > n THEN dst[i] ELSE IF i <= Len(src) THEN src[i] ELSE 0]

\* L116: vsnprintf(m.txt, sizeof(m.txt), fmt, ap)
LogfBuild(buf, out) == vsnprintf(buf, MsgCap, out)

\* Faulty variant: strncpy(m.txt, utf8msg, sizeof(m.txt)) and no terminator store
IsrBuildNoTerminator(buf, utf8msg) == strncpy(buf, utf8msg, MsgCap)

\* L134-135: strncpy(m.txt, utf8msg, sizeof(m.txt) - 1); m.txt[sizeof(m.txt) - 1] = 0
IsrBuild(buf, utf8msg) == [strncpy(buf, utf8msg, MsgCap - 1) EXCEPT ![MsgCap] = 0]

\* L186-187: strncpy(lines[w], incoming.txt, sizeof(incoming.txt)); lines[w][63] = 0
LineStore(line, incoming) == [strncpy(line, Text(incoming), MsgCap) EXCEPT ![MsgCap] = 0]

\* Faulty variant: the loop without its break at the terminator
RECURSIVE SanitizeNoBreak(_, _)
SanitizeNoBreak(txt, i) ==
  IF i > MsgCap THEN txt
  ELSE IF txt[i] < 32 THEN SanitizeNoBreak([txt EXCEPT ![i] = 63], i + 1)
  ELSE SanitizeNoBreak(txt, i + 1)

\* L120-125 / L138-143: for (i = 0; i < sizeof(m.txt); ++i)
\*   if ((unsigned char)m.txt[i] < 0x20) { if (m.txt[i] == 0) break; m.txt[i] = '?'; }
RECURSIVE SanitizeLoop(_, _)
SanitizeLoop(txt, i) ==
  IF i > MsgCap THEN txt
  ELSE IF txt[i] < 32
       THEN IF txt[i] = 0 THEN txt
            ELSE SanitizeLoop([txt EXCEPT ![i] = 63], i + 1)
  ELSE SanitizeLoop(txt, i + 1)

\* The message path of SpecText: the argument of the call, m.txt as built,
\* m.txt as it is now, one line of the line buffer.
NoText == [pc |-> "idle", path |-> "none", arg |-> << >>,
           m0 |-> Filled(0), m |-> Filled(0), line |-> Filled(0)]

\* ------------------------------------------------------------ initial state
Init ==
  /\ _queue = NULL /\ _display = NULL /\ _taskHandle = NULL
  /\ _queue_len = 16 /\ _height = 64
  /\ queues = [k \in Ids |-> NoQueue]
  /\ displays = [k \in Ids |-> NoDisplay]
  /\ lines = BlankRows(MAX_LINES) /\ initOnce = FALSE
  /\ tasks = [k \in Ids |-> NoTask]
  /\ prod = [p \in TaskProducers |-> IdleProd]
  /\ bpc = "idle" /\ bargs = [queue_len |-> 16, height |-> 64] /\ nbegins = 0
  /\ nmsgs = 0
  /\ fault = FALSE
  /\ isrRes = "none" /\ lastBegin = "none" /\ everOk = FALSE
  /\ sender = << >> /\ received = << >> /\ lost = << >> /\ enqueued = << >>
  /\ text = NoText

\* A queue call on a null or deleted handle, or a display call on a null, freed
\* or not yet begun display, is undefined behaviour (FreeRTOS asserts, the
\* driver dereferences a null buffer): the model records it in `fault` and
\* halts, so every other state is one in which no such call has happened.
Running == fault = FALSE

\* ------------------------------------------------------------ begin()
\* `return false` / `return true` of begin
BeginReturn(result) ==
  /\ bpc' = "idle"
  /\ lastBegin' = IF result THEN "true" ELSE "false"
  /\ everOk' = (everOk \/ result)

\* delete _display (the object _display points to is freed); on each failing
\* exit of begin the release and the store of nullptr that follows it are one
\* step, so a non-null handle always points to an object that exists
DeleteDisplay(ds, d) == IF d = NULL THEN ds ELSE [ds EXCEPT ![d].state = "deleted"]

\* vQueueDelete(_queue)
DeleteQueue(qs, h) == IF h = NULL THEN qs ELSE [qs EXCEPT ![h].state = "deleted"]

\* L28-31: the call and the stores of the configuration
BeginCall(queue_len, height) ==
  /\ Running
  /\ bpc = "idle" /\ nbegins < MaxBegins
  /\ nbegins' = nbegins + 1
  /\ bargs' = [queue_len |-> queue_len, height |-> height]
  /\ _height' = height
  /\ _queue_len' = QueueLenClamp(queue_len)
  /\ bpc' = "alloc"
  /\ UNCHANGED <<_queue, _display, _taskHandle, heap, consumerVars, prod,
                 callVars, fault, isrRes, lastBegin, everOk, received, lost>>
  /\ UNCHANGED <<enqueued, text>>

\* L43-47: _display = new Adafruit_SSD1306(...); if (!_display) return false
BeginAlloc ==
  /\ Running
  /\ bpc = "alloc"
  /\ \E ok \in BOOLEAN :
       IF ok
       THEN /\ _display' = nbegins
            /\ displays' = [displays EXCEPT ![nbegins] =
                 [state |-> "raw",
                  canvas |-> BlankRows(_height \div LINE_HEIGHT),
                  shown |-> BlankRows(_height \div LINE_HEIGHT)]]
            /\ bpc' = "dinit"
            /\ UNCHANGED <<lastBegin, everOk>>
       ELSE /\ _display' = NULL
            /\ displays' = displays
            /\ BeginReturn(FALSE)
  /\ UNCHANGED <<_queue, _taskHandle, _queue_len, _height, queues, consumerVars,
                 prod, bargs, nbegins, callVars, fault, isrRes, received, lost>>
  /\ UNCHANGED <<enqueued, text>>

\* L49-64: _display->begin(...) and the fixed display configuration
BeginDisplayInit ==
  /\ Running
  /\ bpc = "dinit"
  /\ \E ok \in BOOLEAN :
       IF ok
       THEN /\ displays' = [displays EXCEPT ![_display].state = "live"]
            /\ _display' = _display
            /\ bpc' = "qcreate"
            /\ UNCHANGED <<lastBegin, everOk>>
       ELSE /\ displays' = DeleteDisplay(displays, _display)
            /\ _display' = NULL
            /\ BeginReturn(FALSE)
  /\ UNCHANGED <<_queue, _taskHandle, _queue_len, _height, queues, consumerVars,
                 prod, bargs, nbegins, callVars, fault, isrRes, received, lost>>
  /\ UNCHANGED <<enqueued, text>>

\* L67-73: _queue = xQueueCreate(_queue_len, sizeof(msg_t))
BeginQueueCreate ==
  /\ Running
  /\ bpc = "qcreate"
  /\ \E ok \in BOOLEAN :
       IF ok
       THEN /\ _queue' = nbegins
            /\ queues' = [queues EXCEPT ![nbegins] =
                 [state |-> "live", cap |-> _queue_len, items |-> << >>]]
            /\ UNCHANGED <<_display, displays, lastBegin, everOk>>
            /\ bpc' = "tcreate"
       ELSE /\ _queue' = NULL
            /\ queues' = queues
            /\ displays' = DeleteDisplay(displays, _display)
            /\ _display' = NULL
            /\ BeginReturn(FALSE)
  /\ UNCHANGED <<_taskHandle, _queue_len, _height, consumerVars,
                 prod, bargs, nbegins, callVars, fault, isrRes, received, lost>>
  /\ UNCHANGED <<enqueued, text>>

\* L76-94: xTaskCreatePinnedToCore(&taskFunc, ..., &_taskHandle, ...)
BeginTaskCreate ==
  /\ Running
  /\ bpc = "tcreate"
  /\ \E ok \in BOOLEAN :
       IF ok
       THEN /\ tasks' = [tasks EXCEPT ![nbegins].pc = "start"]
            /\ _taskHandle' = nbegins
            /\ UNCHANGED <<_queue, _display, heap>>
            /\ BeginReturn(TRUE)
       ELSE /\ queues' = DeleteQueue(queues, _queue)
            /\ _queue' = NULL
            /\ displays' = DeleteDisplay(displays, _display)
            /\ _display' = NULL
            /\ UNCHANGED <<tasks, _taskHandle>>
            /\ BeginReturn(FALSE)
  /\ UNCHANGED <<_queue_len, _height, lines, initOnce,
                 prod, bargs, nbegins, callVars, fault, isrRes, received, lost>>
  /\ UNCHANGED <<enqueued, text>>


\* ------------------------------------------------------------ producers
\* The texts a queue holds that `after` no longer holds
Removed(before, after) ==
  {before.items[i] : i \in 1..Len(before.items)} \
  {after.items[i] : i \in 1..Len(after.items)}

\* L111 / L132: if (!_queue) return
NotReady == _queue = NULL

\* Faulty variant: logf without its guard on _queue
LogfCallNoGuard(p) ==
  /\ Running
  /\ prod[p].pc = "idle"
  /\ nmsgs' = nmsgs + 1
  /\ sender' = Append(sender, [by |-> p, ready |-> ~NotReady, mark |-> Len(enqueued)])
  /\ lost' = Append(lost, {})
  /\ prod' = [prod EXCEPT ![p] =
       [pc |-> "send1", m |-> Sanitize(Vsnprintf(Raw(nmsgs + 1))), id |-> nmsgs + 1]]
  /\ UNCHANGED <<statics, heap, consumerVars, beginVars, fault, isrRes, received>>
  /\ UNCHANGED <<enqueued, text>>

\* L109-125: logf up to the call of sendOrDropOldest
LogfCall(p) ==
  /\ Running
  /\ prod[p].pc = "idle"
  /\ nmsgs' = nmsgs + 1
  /\ sender' = Append(sender, [by |-> p, ready |-> ~NotReady, mark |-> Len(enqueued)])
  /\ lost' = Append(lost, {})
  /\ IF NotReady
     THEN prod' = prod
     ELSE prod' = [prod EXCEPT ![p] =
            [pc |-> "send1", m |-> Sanitize(Vsnprintf(Raw(nmsgs + 1))),
             id |-> nmsgs + 1]]
  /\ UNCHANGED <<statics, heap, consumerVars, beginVars, fault, isrRes, received>>
  /\ UNCHANGED <<enqueued, text>>

\* Faulty variant: the first send waits for room: xQueueSend(_queue, &m, portMAX_DELAY)
LogfSend1_Blocking(p) ==
  /\ Running
  /\ prod[p].pc = "send1"
  /\ LiveQueue(_queue)
  /\ QueueHasRoom(queues[_queue])
  /\ queues' = [queues EXCEPT ![_queue] = QueuePut(@, prod[p].m)]
  /\ enqueued' = Append(enqueued, prod[p].m)
  /\ prod' = [prod EXCEPT ![p] = IdleProd]
  /\ UNCHANGED <<statics, displays, consumerVars, beginVars, callVars, isrRes,
                 received, lost, fault>>
  /\ UNCHANGED text

\* L99: if (xQueueSend(_queue, &m, 0) == pdTRUE) return
LogfSend1(p) ==
  /\ Running
  /\ prod[p].pc = "send1"
  /\ IF ~LiveQueue(_queue)
     THEN /\ fault' = TRUE
          /\ prod' = [prod EXCEPT ![p].pc = "fault"]
          /\ UNCHANGED <<queues, enqueued>>
     ELSE /\ fault' = fault
          /\ IF QueueHasRoom(queues[_queue])
             THEN /\ queues' = [queues EXCEPT ![_queue] = QueuePut(@, prod[p].m)]
                  /\ enqueued' = Append(enqueued, prod[p].m)
                  /\ prod' = [prod EXCEPT ![p] = IdleProd]
             ELSE /\ UNCHANGED <<queues, enqueued>>
                  /\ prod' = [prod EXCEPT ![p].pc = "evict"]
  /\ UNCHANGED <<statics, displays, consumerVars, beginVars, callVars, isrRes,
                 received, lost>>
  /\ UNCHANGED text

\* L102-105: if (xQueueReceive(_queue, &tmp, 0) == pdTRUE) { /* dropped */ }
LogfEvict(p) ==
  /\ Running
  /\ prod[p].pc = "evict"
  /\ IF ~LiveQueue(_queue)
     THEN /\ fault' = TRUE
          /\ prod' = [prod EXCEPT ![p].pc = "fault"]
          /\ UNCHANGED <<queues, lost>>
     ELSE /\ fault' = fault
          /\ prod' = [prod EXCEPT ![p].pc = "send2"]
          /\ IF queues[_queue].items # << >>
             THEN /\ queues' = [queues EXCEPT ![_queue] = EvictOldest(@)]
                  /\ lost' = [lost EXCEPT ![prod[p].id] =
                       @ \cup Removed(queues[_queue], EvictOldest(queues[_queue]))]
             ELSE UNCHANGED <<queues, lost>>
  /\ UNCHANGED <<statics, displays, consumerVars, beginVars, callVars, isrRes,
                 received>>
  /\ UNCHANGED <<enqueued, text>>

\* L106: xQueueSend(_queue, &m, 0), the result ignored
LogfSend2(p) ==
  /\ Running
  /\ prod[p].pc = "send2"
  /\ IF ~LiveQueue(_queue)
     THEN /\ fault' = TRUE
          /\ prod' = [prod EXCEPT ![p].pc = "fault"]
          /\ UNCHANGED <<queues, lost, enqueued>>
     ELSE /\ fault' = fault
          /\ prod' = [prod EXCEPT ![p] = IdleProd]
          /\ IF QueueHasRoom(queues[_queue])
             THEN /\ queues' = [queues EXCEPT ![_queue] = QueuePut(@, prod[p].m)]
                  /\ enqueued' = Append(enqueued, prod[p].m)
                  /\ lost' = lost
             ELSE /\ UNCHANGED <<queues, enqueued>>
                  /\ lost' = [lost EXCEPT ![prod[p].id] = @ \cup {prod[p].m}]
  /\ UNCHANGED <<statics, displays, consumerVars, beginVars, callVars, isrRes,
                 received>>
  /\ UNCHANGED text

\* Faulty variant: logFromISR with the drop-oldest retry of sendOrDropOldest
LogFromISR_DropOldest ==
  /\ Running
  /\ nmsgs' = nmsgs + 1
  /\ sender' = Append(sender, [by |-> "isr", ready |-> ~NotReady, mark |-> Len(enqueued)])
  /\ LET m == Sanitize(StrncpyISR(Raw(nmsgs + 1))) IN
       IF NotReady
       THEN /\ isrRes' = "pdFALSE"
            /\ UNCHANGED <<queues, enqueued>>
            /\ lost' = Append(lost, {})
       ELSE IF QueueHasRoom(queues[_queue])
       THEN /\ isrRes' = "pdTRUE"
            /\ queues' = [queues EXCEPT ![_queue] = QueuePut(@, m)]
            /\ enqueued' = Append(enqueued, m)
            /\ lost' = Append(lost, {})
       ELSE /\ isrRes' = "pdTRUE"
            /\ queues' = [queues EXCEPT ![_queue] = QueuePut(EvictOldest(@), m)]
            /\ enqueued' = Append(enqueued, m)
            /\ lost' = Append(lost, {Head(queues[_queue].items)})
  /\ UNCHANGED <<statics, displays, consumerVars, prod, beginVars, fault, received>>
  /\ UNCHANGED text

\* L130-149: logFromISR; an interrupt handler runs to completion, so the call
\* is one step.  isrRes is the value it returns.
LogFromISR ==
  /\ Running
  /\ nmsgs' = nmsgs + 1
  /\ sender' = Append(sender, [by |-> "isr", ready |-> ~NotReady, mark |-> Len(enqueued)])
  /\ LET m == Sanitize(StrncpyISR(Raw(nmsgs + 1))) IN
       IF NotReady
       THEN /\ isrRes' = "pdFALSE"
            /\ UNCHANGED <<queues, enqueued>>
            /\ lost' = Append(lost, {})
       ELSE IF QueueHasRoom(queues[_queue])
       THEN /\ isrRes' = "pdTRUE"
            /\ queues' = [queues EXCEPT ![_queue] = QueuePut(@, m)]
            /\ enqueued' = Append(enqueued, m)
            /\ lost' = Append(lost, {})
       ELSE /\ isrRes' = "pdFALSE"
            /\ UNCHANGED <<queues, enqueued>>
            /\ lost' = Append(lost, {m})
  /\ UNCHANGED <<statics, displays, consumerVars, prod, beginVars, fault, received>>
  /\ UNCHANGED text

\* ------------------------------------------------------------ taskFunc()
\* Faulty variant: the write index is advanced without the modulo
NextWriteIndexNoWrap(writeIndex, LINES) == writeIndex + 1

\* L184: writeIndex = (writeIndex + 1) % LINES
NextWriteIndex(writeIndex, LINES) == (writeIndex + 1) % LINES

\* Faulty variant: the row loop starts at the newest line: start = writeIndex
RowIndexFromNewest(writeIndex, LINES, i) == (writeIndex + i) % LINES

\* L195, L198: start = (writeIndex + 1) % LINES; idx = (start + i) % LINES
RowIndex(writeIndex, LINES, i) == (((writeIndex + 1) % LINES) + i) % LINES

\* The calls on the display: clearDisplay(), fillRect(0, y, _width,
\* LINE_HEIGHT, BLACK), setCursor(0, y) with print(txt), display()
SurfaceOp(op, y, txt) == [op |-> op, y |-> y, txt |-> txt]

\* Faulty variant: the text is printed first and its rectangle erased after
RowOpsPrintFirst(i, txt) ==
  << SurfaceOp("print", i * LINE_HEIGHT, txt),
     SurfaceOp("fillRect", i * LINE_HEIGHT, Blank) >>

\* L201-205: the calls of one turn of the row loop
RowOps(i, txt) ==
  << SurfaceOp("fillRect", i * LINE_HEIGHT, Blank),
     SurfaceOp("print", i * LINE_HEIGHT, txt) >>

\* Row `i` (from 0) of a canvas set to `txt`; a row below the panel is clipped
DrawRow(canvas, i, txt) ==
  IF i + 1 \in DOMAIN canvas THEN [canvas EXCEPT ![i + 1] = txt] ELSE canvas

ConsumerFault(c) ==
  /\ fault' = TRUE
  /\ tasks' = [tasks EXCEPT ![c].pc = "fault"]

\* L153-179: the prologue of the task
ConsumerStart(c) ==
  /\ Running
  /\ tasks[c].pc = "start"
  /\ IF _display = NULL
     THEN /\ tasks' = [tasks EXCEPT ![c].pc = "deleted"]
          /\ UNCHANGED <<lines, initOnce>>
     ELSE /\ tasks' = [tasks EXCEPT ![c].pc = "recv",
                                    ![c].LINES = LinesFor(_height),
                                    ![c].writeIndex = -1]
          /\ lines' = IF initOnce THEN lines ELSE BlankRows(MAX_LINES)
          /\ initOnce' = TRUE
  /\ UNCHANGED <<statics, heap, prod, beginVars, callVars, fault, isrRes,
                 received, lost>>
  /\ UNCHANGED <<enqueued, text>>

\* L183: xQueueReceive(_queue, &incoming, portMAX_DELAY) is called: it returns
\* the oldest message, or suspends the task on that queue when it is empty
ConsumerRecv(c) ==
  /\ Running
  /\ tasks[c].pc = "recv"
  /\ IF ~LiveQueue(_queue)
     THEN /\ ConsumerFault(c)
          /\ UNCHANGED <<queues, received>>
     ELSE /\ fault' = fault
          /\ IF queues[_queue].items # << >>
             THEN /\ tasks' = [tasks EXCEPT ![c].pc = "store",
                                            ![c].incoming = Head(queues[_queue].items),
                                            ![c].ops = << >>]
                  /\ queues' = [queues EXCEPT ![_queue].items = Tail(@)]
                  /\ received' = Append(received, Head(queues[_queue].items))
             ELSE /\ tasks' = [tasks EXCEPT ![c].pc = "blocked", ![c].waitq = _queue]
                  /\ UNCHANGED <<queues, received>>
  /\ UNCHANGED <<statics, displays, lines, initOnce, prod, beginVars, callVars,
                 isrRes, lost>>
  /\ UNCHANGED <<enqueued, text>>

\* L183: the suspended xQueueReceive returns once its queue holds a message
ConsumerWake(c) ==
  /\ Running
  /\ tasks[c].pc = "blocked"
  /\ LiveQueue(tasks[c].waitq)
  /\ queues[tasks[c].waitq].items # << >>
  /\ tasks' = [tasks EXCEPT ![c].pc = "store",
                            ![c].incoming = Head(queues[tasks[c].waitq].items),
                            ![c].waitq = NULL,
                            ![c].ops = << >>]
  /\ queues' = [queues EXCEPT ![tasks[c].waitq].items = Tail(@)]
  /\ received' = Append(received, Head(queues[tasks[c].waitq].items))
  /\ UNCHANGED <<statics, displays, lines, initOnce, prod, beginVars, callVars,
                 fault, isrRes, lost>>
  /\ UNCHANGED <<enqueued, text>>

\* L184-187: advance the write index, copy the text into that line
ConsumerStore(c) ==
  /\ Running
  /\ tasks[c].pc = "store"
  /\ LET w == NextWriteIndex(tasks[c].writeIndex, tasks[c].LINES) IN
       /\ tasks' = [tasks EXCEPT ![c].pc = "clear", ![c].writeIndex = w]
       /\ lines' = [lines EXCEPT ![w + 1] = StrncpyLine(tasks[c].incoming)]
  /\ UNCHANGED <<statics, heap, initOnce, prod, beginVars, callVars, fault,
                 isrRes, received, lost>>
  /\ UNCHANGED <<enqueued, text>>

\* L190-195: _display->clearDisplay() and the text settings
ConsumerClear(c) ==
  /\ Running
  /\ tasks[c].pc = "clear"
  /\ IF ~LiveDisplay(_display)
     THEN /\ ConsumerFault(c)
          /\ displays' = displays
     ELSE /\ fault' = fault
          /\ tasks' = [tasks EXCEPT ![c].pc = "row", ![c].i = 0,
               ![c].ops = Append(@, SurfaceOp("clearDisplay", 0, Blank))]
          /\ displays' = [displays EXCEPT ![_display].canvas =
                            BlankRows(Len(displays[_display].canvas))]
  /\ UNCHANGED <<statics, queues, lines, initOnce, prod, beginVars, callVars,
                 isrRes, received, lost>>
  /\ UNCHANGED <<enqueued, text>>

\* L197-206: one turn of the row loop: fillRect(0, i * LINE_HEIGHT, _width,
\* LINE_HEIGHT, BLACK); setCursor(0, i * LINE_HEIGHT); print(lines[idx]); ++i
ConsumerDrawRow(c) ==
  /\ Running
  /\ tasks[c].pc = "row"
  /\ IF ~LiveDisplay(_display)
     THEN /\ ConsumerFault(c)
          /\ displays' = displays
     ELSE /\ fault' = fault
          /\ tasks' = [tasks EXCEPT
               ![c].pc = IF tasks[c].i + 1 < tasks[c].LINES THEN "row" ELSE "present",
               ![c].i = tasks[c].i + 1,
               ![c].ops = @ \o RowOps(tasks[c].i,
                 lines[RowIndex(tasks[c].writeIndex, tasks[c].LINES, tasks[c].i) + 1])]
          /\ displays' = [displays EXCEPT ![_display].canvas =
               DrawRow(DrawRow(@, tasks[c].i, Blank), tasks[c].i,
                       lines[RowIndex(tasks[c].writeIndex, tasks[c].LINES, tasks[c].i) + 1])]
  /\ UNCHANGED <<statics, queues, lines, initOnce, prod, beginVars, callVars,
                 isrRes, received, lost>>
  /\ UNCHANGED <<enqueued, text>>

\* Faulty variant: the frame is never pushed to the panel
ConsumerPresent_NoDisplay(c) ==
  /\ Running
  /\ tasks[c].pc = "present"
  /\ tasks' = [tasks EXCEPT ![c].pc = "recv"]
  /\ UNCHANGED <<statics, heap, lines, initOnce, prod, beginVars, callVars,
                 fault, isrRes, received, lost, enqueued, text>>

\* L209: _display->display()
ConsumerPresent(c) ==
  /\ Running
  /\ tasks[c].pc = "present"
  /\ IF ~LiveDisplay(_display)
     THEN /\ ConsumerFault(c)
          /\ displays' = displays
     ELSE /\ fault' = fault
          /\ tasks' = [tasks EXCEPT ![c].pc = "recv",
               ![c].ops = Append(@, SurfaceOp("display", 0, Blank)),
               ![c].presents = @ + 1]
          /\ displays' = [displays EXCEPT ![_display].shown = displays[_display].canvas]
  /\ UNCHANGED <<statics, queues, lines, initOnce, prod, beginVars, callVars,
                 isrRes, received, lost>>
  /\ UNCHANGED <<enqueued, text>>

\* ------------------------------------------------------------ message bytes
\* The argument texts: short ones and ones around and beyond the 63 bytes a
\* message can hold, of letters only, of control bytes only, and mixed.
Palette == <<9, 65, 31, 32, 127, 200, 1>>
Pattern(k, i) ==
  CASE k = 1 -> 65
    [] k = 2 -> Palette[((i - 1) % Len(Palette)) + 1]
    [] OTHER -> 10
InputLens == (0..2) \cup ((MsgCap - 2)..MaxInputLen)
Inputs == {[i \in 1..n |-> Pattern(k, i)] : n \in InputLens, k \in 1..3}
StackBytes == {0, 7, 255}

\* L113-117: msg_t m (not initialised); vsnprintf into m.txt
TextLogf(out, junk) ==
  /\ text.pc \in {"idle", "stored"}
  /\ text' = [text EXCEPT !.pc = "built", !.path = "logf", !.arg = out,
                          !.m0 = LogfBuild(Filled(junk), out),
                          !.m = LogfBuild(Filled(junk), out)]
  /\ UNCHANGED <<statics, heap, consumerVars, prod, beginVars, callVars, fault,
                 isrRes, received, lost, enqueued>>

\* L133-135: msg_t m (not initialised); strncpy into m.txt
TextISR(utf8msg, junk) ==
  /\ text.pc \in {"idle", "stored"}
  /\ text' = [text EXCEPT !.pc = "built", !.path = "isr", !.arg = utf8msg,
                          !.m0 = IsrBuild(Filled(junk), utf8msg),
                          !.m = IsrBuild(Filled(junk), utf8msg)]
  /\ UNCHANGED <<statics, heap, consumerVars, prod, beginVars, callVars, fault,
                 isrRes, received, lost, enqueued>>

\* L120-125 / L138-143: the sanitation loop over m.txt
TextSanitize ==
  /\ text.pc = "built"
  /\ text' = [text EXCEPT !.pc = "sane", !.m = SanitizeLoop(text.m, 1)]
  /\ UNCHANGED <<statics, heap, consumerVars, prod, beginVars, callVars, fault,
                 isrRes, received, lost, enqueued>>

\* L183-187: the message, copied through the queue into `incoming`, is copied
\* into a line
TextStore ==
  /\ text.pc = "sane"
  /\ text' = [text EXCEPT !.pc = "stored", !.line = LineStore(text.line, text.m)]
  /\ UNCHANGED <<statics, heap, consumerVars, prod, beginVars, callVars, fault,
                 isrRes, received, lost, enqueued>>

\* ------------------------------------------------------------ specifications
Consumer ==
  \E c \in Ids :
    \/ ConsumerStart(c)
    \/ ConsumerRecv(c)
    \/ ConsumerWake(c)
    \/ ConsumerStore(c)
    \/ ConsumerClear(c)
    \/ ConsumerDrawRow(c)
    \/ ConsumerPresent(c)

LogfSteps ==
  \E p \in TaskProducers : LogfSend1(p) \/ LogfEvict(p) \/ LogfSend2(p)

\* The logger as it is used: one begin call (which fails or succeeds), task
\* producers, the interrupt producer and the consumer in every interleaving.
Next ==
  \/ (nbegins = 0 /\ \E queue_len \in QueueLens, height \in Heights :
                       BeginCall(queue_len, height))
  \/ BeginAlloc
  \/ BeginDisplayInit
  \/ BeginQueueCreate
  \/ BeginTaskCreate
  \/ (nmsgs < MaxMsgs /\ \E p \in TaskProducers : LogfCall(p))
  \/ (nmsgs < MaxMsgs /\ LogFromISR)
  \/ LogfSteps
  \/ Consumer

Spec == Init /\ [][Next]_vars

\* The same with the consumer task scheduled fairly: a step the consumer can
\* take is taken in the end.  Nothing is assumed of the producers.
SpecLive == Init /\ [][Next]_vars /\ WF_vars(Consumer)

\* The logger with begin called again and again, after a failure as after a
\* success: each successful call leaves one more consumer task behind.
NextRebegin ==
  \/ (\E queue_len \in LifeQueueLens, height \in LifeHeights :
        BeginCall(queue_len, height))
  \/ BeginAlloc
  \/ BeginDisplayInit
  \/ BeginQueueCreate
  \/ BeginTaskCreate
  \/ (nmsgs < LifeMsgs /\ LogfCall("t1"))
  \/ (nmsgs < LifeMsgs /\ LogFromISR)
  \/ LogfSteps
  \/ Consumer

SpecRebegin == Init /\ [][NextRebegin]_vars

\* The logger on panels of no, three and seventeen text rows, with a queue of
\* one message and one task producer.
NextRows ==
  \/ (nbegins = 0 /\ \E height \in RowHeights : BeginCall(1, height))
  \/ BeginAlloc
  \/ BeginDisplayInit
  \/ BeginQueueCreate
  \/ BeginTaskCreate
  \/ (nmsgs < RowMsgs /\ LogfCall("t1"))
  \/ LogfSteps
  \/ Consumer

SpecRows == Init /\ [][NextRows]_vars

\* The bytes of one message after another on their way from the argument of
\* logf or logFromISR into a line of the line buffer.
NextText ==
  \/ \E out \in Inputs, junk \in StackBytes : TextLogf(out, junk)
  \/ \E utf8msg \in Inputs, junk \in StackBytes : TextISR(utf8msg, junk)
  \/ TextSanitize
  \/ TextStore

SpecText == Init /\ [][NextText]_vars

\* ------------------------------------------------------------ properties
\* The text the n-th producer call builds and sends
Msg(n) == Sanitize(Vsnprintf(Raw(n)))

\* Every call made so far is a logf call of task producer p on a ready logger
OnlyProducer(p) == \A i \in 1..Len(sender) : sender[i].by = p /\ sender[i].ready

\* No task producer is inside a logf call
ProducersIdle == \A p \in TaskProducers : prod[p].pc = "idle"

\* The step is the entry of a producer call
CallStep == nmsgs' = nmsgs + 1
IsrStep == CallStep /\ sender'[nmsgs'].by = "isr"

\* C1 (FIFO with eviction): when one task producer alone has sent Q+1 messages
\* with logf into a queue of capacity Q and the consumer has received nothing,
\* the queue holds, oldest first, exactly the messages 2..Q+1; and once the
\* consumer has emptied a queue that was filled so (message 1 was evicted by
\* call Q+1), what it has received is exactly the messages 2..Q+1 in send order.
C1_FifoWithEviction ==
  /\ ( /\ Running
       /\ LiveQueue(_queue)
       /\ OnlyProducer("t1")
       /\ ProducersIdle
       /\ received = << >>
       /\ nmsgs = queues[_queue].cap + 1 )
     => queues[_queue].items = [i \in 1..queues[_queue].cap |-> Msg(i + 1)]
  /\ ( /\ Running
       /\ LiveQueue(_queue)
       /\ OnlyProducer("t1")
       /\ ProducersIdle
       /\ nmsgs = queues[_queue].cap + 1
       /\ lost[nmsgs] = {Msg(1)}
       /\ queues[_queue].items = << >> )
     => received = [i \in 1..queues[_queue].cap |-> Msg(i + 1)]

\* Capacity 2: "A", "B", "C" sent, "A" evicted by the third call, nothing
\* received yet.
C1_Witness ==
  /\ LiveQueue(_queue)
  /\ queues[_queue].cap = 2
  /\ OnlyProducer("t1")
  /\ ProducersIdle
  /\ received = << >>
  /\ nmsgs = 3
  /\ lost[3] = {Msg(1)}

\* C2 (interrupt-context send is drop-newest): a logFromISR call on a ready
\* logger either finds room, appends its message at the tail and returns
\* pdTRUE, or finds the queue full, returns pdFALSE and leaves every queue as
\* it was; on a logger that is not ready it returns pdFALSE and changes no
\* queue.  It never removes a message.
C2_IsrDropNewest ==
  [][ IsrStep =>
        IF _queue = NULL
        THEN isrRes' = "pdFALSE" /\ queues' = queues
        ELSE \/ /\ Len(queues[_queue].items) < queues[_queue].cap
                /\ queues' = [queues EXCEPT ![_queue].items = Append(@, Msg(nmsgs'))]
                /\ isrRes' = "pdTRUE"
             \/ /\ Len(queues[_queue].items) = queues[_queue].cap
                /\ queues' = queues
                /\ isrRes' = "pdFALSE" ]_vars

C2_Witness ==
  /\ nmsgs >= 1
  /\ sender[nmsgs].by = "isr"
  /\ sender[nmsgs].ready
  /\ isrRes = "pdFALSE"
  /\ lost[nmsgs] = {Msg(nmsgs)}
  /\ LiveQueue(_queue)
  /\ Len(queues[_queue].items) = queues[_queue].cap

\* The steps a logf call still has to take from each place in it
Remaining(pc) ==
  CASE pc = "send1" -> 3
    [] pc = "evict" -> 2
    [] pc = "send2" -> 1
    [] OTHER -> 0

\* Every step of a producer call can be taken now
ProducersEnabled ==
  /\ ENABLED LogFromISR
  /\ \A p \in TaskProducers :
       /\ prod[p].pc = "idle" => ENABLED LogfCall(p)
       /\ prod[p].pc = "send1" => ENABLED LogfSend1(p)
       /\ prod[p].pc = "evict" => ENABLED LogfEvict(p)
       /\ prod[p].pc = "send2" => ENABLED LogfSend2(p)

\* Every step of begin and of the consumer other than the suspended receive
\* can be taken now
OthersEnabled ==
  /\ bpc = "alloc" => ENABLED BeginAlloc
  /\ bpc = "dinit" => ENABLED BeginDisplayInit
  /\ bpc = "qcreate" => ENABLED BeginQueueCreate
  /\ bpc = "tcreate" => ENABLED BeginTaskCreate
  /\ \A c \in Ids :
       /\ tasks[c].pc = "start" => ENABLED ConsumerStart(c)
       /\ tasks[c].pc = "recv" => ENABLED ConsumerRecv(c)
       /\ tasks[c].pc = "store" => ENABLED ConsumerStore(c)
       /\ tasks[c].pc = "clear" => ENABLED ConsumerClear(c)
       /\ tasks[c].pc = "row" => ENABLED ConsumerDrawRow(c)
       /\ tasks[c].pc = "present" => ENABLED ConsumerPresent(c)

\* A step of producer p inside logf brings the call nearer to its end
ProducerAdvances ==
  \A p \in TaskProducers :
    prod'[p] # prod[p] =>
      \/ prod[p].pc = "idle" /\ prod'[p].pc = "send1"
      \/ Remaining(prod'[p].pc) < Remaining(prod[p].pc)

\* C3 (producers never wait): in every state, whatever the queue holds and
\* wherever the consumer stands, the next step of every logf call and a whole
\* logFromISR call can be taken, and each step of a logf call leaves it fewer
\* steps to take, at most four in all; of all the steps of the system only the
\* consumer's suspended receive can be disabled.
C3_ProducersNeverWait ==
  /\ [](Running => ProducersEnabled /\ OthersEnabled)
  /\ [][ProducerAdvances]_vars

\* A task producer has just found the queue full and goes on to evict, the
\* consumer having received nothing so far.
C3_Witness ==
  /\ LiveQueue(_queue)
  /\ Len(queues[_queue].items) = queues[_queue].cap
  /\ received = << >>
  /\ \E p \in TaskProducers : prod[p].pc = "evict"
  /\ \E c \in Ids : tasks[c].pc = "blocked"

\* C4 (queue bound): every queue begin has created holds at most Q messages,
\* where Q is the queue_len argument of that begin call raised to at least 1,
\* and no step changes the capacity of a queue once it exists.
C4_QueueBound ==
  /\ [](\A k \in Ids :
          queues[k].state = "live" =>
            /\ Len(queues[k].items) <= queues[k].cap
            /\ queues[k].cap = Max(1, bargs.queue_len))
  /\ [][\A k \in Ids :
          queues[k].state = "live" => queues'[k].cap = queues[k].cap]_vars

\* begin(queue_len = 0): the queue of capacity 1 is full and a producer has
\* just been refused by it.
C4_Witness ==
  /\ bargs.queue_len = 0
  /\ LiveQueue(_queue)
  /\ Len(queues[_queue].items) = 1
  /\ \E p \in TaskProducers : prod[p].pc = "evict"

\* C5 as the spec states it: a logf call loses at most one message, counting
\* the message it evicts and its own.
C5_AtMostOneLost ==
  \A i \in 1..nmsgs :
    sender[i].by \in TaskProducers => Cardinality(lost[i]) <= 1

\* C5 (amended): a logf call evicts at most one message, and besides that
\* loses at most its own new message: at most two messages in all.
C5_AtMostTwoLost ==
  \A i \in 1..nmsgs :
    sender[i].by \in TaskProducers =>
      /\ Cardinality(lost[i] \ {Msg(i)}) <= 1
      /\ Cardinality(lost[i]) <= 2

\* A logf call has evicted one message and then dropped its own.
C5_Witness ==
  \E i \in 1..nmsgs :
    /\ sender[i].by \in TaskProducers
    /\ Msg(i) \in lost[i]
    /\ Cardinality(lost[i]) = 2

\* The frame on the panel, top row first
Shown == displays[_display].shown

IsText(txt) == txt # Blank

\* Consumer c has rendered every message it has received
ConsumerIdle(c) == tasks[c].pc \in {"recv", "blocked"}

\* C6 (ring buffer ordering): with L rows and the line buffer empty at the
\* start, once the consumer has rendered k <= L messages the rows of the frame
\* read from top to bottom, the still blank rows above them left out, are
\* m1, ..., mk; once it has rendered L+1 messages row 0 shows m2 and row L-1
\* shows m(L+1).
C6_RingBufferOrdering ==
  ( /\ Running
    /\ LiveDisplay(_display)
    /\ ConsumerIdle(1)
    /\ Len(received) >= 1 )
  => LET L == tasks[1].LINES
         k == Len(received)
     IN  /\ k <= L => SelectSeq(Shown, IsText) = received
         /\ k = L + 1 => Shown[1] = received[2] /\ Shown[L] = received[L + 1]

\* Two rows, three messages rendered.
C6_Witness ==
  /\ Running
  /\ LiveDisplay(_display)
  /\ ConsumerIdle(1)
  /\ tasks[1].LINES = 2
  /\ Len(received) = 3
  /\ Shown = <<received[2], received[3]>>

\* The end-to-end scenario: capacity 2, two rows, task producer t1 alone has
\* sent "A", "B", "C" with logf, and the consumer has drained the queue and
\* rendered what it received.
Scenario ==
  /\ Running
  /\ LiveQueue(_queue)
  /\ LiveDisplay(_display)
  /\ queues[_queue].cap = 2
  /\ tasks[1].LINES = 2
  /\ OnlyProducer("t1")
  /\ nmsgs = 3
  /\ ProducersIdle
  /\ queues[_queue].items = << >>
  /\ ConsumerIdle(1)

\* C7 as the spec states it: under every interleaving the last frame is
\* row 0 = "B", row 1 = "C".
C7_EndToEnd == Scenario => Shown = <<Msg(2), Msg(3)>>

\* C7 (amended): the last frame has "C" on row 1; row 0 is "B", except when
\* the logf call of "C" evicted "B" (the consumer took "A" between the failed
\* first enqueue of "C" and the eviction), and then row 0 is "A".
C7_EndToEndAmended ==
  Scenario =>
    Shown = IF Msg(2) \in lost[3] THEN <<Msg(1), Msg(3)>> ELSE <<Msg(2), Msg(3)>>

\* The scenario has ended with "B" evicted although "A" had been received.
C7_Witness ==
  /\ Scenario
  /\ Msg(2) \in lost[3]
  /\ received = <<Msg(1), Msg(3)>>

C9_FailedBeginLeavesNothing ==
  /\ []( (bpc = "idle" /\ lastBegin = "false") =>
           /\ _queue = NULL
           /\ _display = NULL
           /\ \A c \in Ids : tasks[c].pc \in {"none", "deleted"} )
  /\ [][ (CallStep /\ bpc = "idle" /\ lastBegin = "false") => queues' = queues ]_vars

\* C10 (isReady agrees with the outcome of begin): whenever no begin call is
\* in progress, isReady() is true exactly when the most recent begin call
\* returned true; it is false when begin was never called.
C10_IsReadyIffLastBeginOk ==
  bpc = "idle" => (isReady <=> (lastBegin = "true"))

\* A begin call has failed after an earlier one had succeeded: the earlier
\* queue is still there, and isReady() is false.
C10_Witness ==
  /\ bpc = "idle"
  /\ lastBegin = "false"
  /\ everOk
  /\ _queue # NULL
  /\ ~isReady

\* What C11 says the sanitation makes of buffer b
Sanitized(b) ==
  [i \in 1..Len(b) |-> IF i < FirstNul(b, 1) /\ b[i] < 32 THEN 63 ELSE b[i]]

C12_TruncationSafety ==
  /\ Len(text.line) = MsgCap /\ Terminated(text.line)
  /\ text.pc # "idle" =>
       /\ Len(text.m) = MsgCap /\ Terminated(text.m)
       /\ Len(Text(text.m)) <= MsgCap - 1
       /\ Text(text.m0) = SubSeq(text.arg, 1, Min(Len(text.arg), MsgCap - 1))
       /\ Len(Text(text.m)) = Len(Text(text.m0))
  /\ text.pc = "stored" => Text(text.line) = Text(text.m)

\* logFromISR of 66 bytes: 63 of them are in the line.
C12_Witness ==
  /\ text.pc = "stored"
  /\ text.path = "isr"
  /\ Len(text.arg) = MaxInputLen
  /\ Len(Text(text.line)) = MsgCap - 1
  /\ Text(text.line) = Sanitize(SubSeq(text.arg, 1, MsgCap - 1))

\* The step takes a message out of a queue and the consumer does not receive it
RemovalStep ==
  /\ \E k \in Ids : Len(queues'[k].items) < Len(queues[k].items)
  /\ received' = received

\* The step is the eviction attempt of a logf call, and it takes exactly the
\* oldest message of the queue
EvictsOldest ==
  /\ \E p \in TaskProducers : prod[p].pc = "evict" /\ prod'[p].pc = "send2"
  /\ queues' = [queues EXCEPT ![_queue].items = Tail(@)]

\* C13 as the spec states it: with one task producer and the consumer, a logf
\* call takes a message out of the queue only when the queue is full at that
\* moment, and then the oldest one.
C13_EvictOnlyWhenFull ==
  [][ (OnlyProducer("t1") /\ RemovalStep) =>
        /\ Len(queues[_queue].items) = queues[_queue].cap
        /\ EvictsOldest ]_vars

\* C13 (amended): a logf call goes on to its eviction attempt only from a
\* first enqueue attempt that found the queue full; only such an attempt takes
\* a message out of a queue without the consumer receiving it, and it takes
\* the oldest message buffered at that moment, be the queue still full or
\* not; a call evicts at most one message.
C13_EvictAfterFullSend ==
  /\ [][ \A p \in TaskProducers :
           (prod'[p].pc = "evict" /\ prod[p].pc # "evict") =>
             /\ prod[p].pc = "send1"
             /\ Len(queues[_queue].items) = queues[_queue].cap
             /\ queues' = queues ]_vars
  /\ [][ RemovalStep => EvictsOldest ]_vars
  /\ [](\A i \in 1..nmsgs : Cardinality(lost[i] \ {Msg(i)}) <= 1)

\* One task producer, capacity 2: "C" found the queue full, the consumer then
\* received "A", and the call of "C" has evicted "B" from a queue that was no
\* longer full.
C13_Witness ==
  /\ OnlyProducer("t1")
  /\ LiveQueue(_queue)
  /\ queues[_queue].cap = 2
  /\ prod["t1"].pc = "send2"
  /\ received = <<Msg(1)>>
  /\ lost[3] = {Msg(2)}
  /\ queues[_queue].items = << >>

\* The step ends the logf call of producer p by an enqueue attempt
EndsCall(p) == prod[p].pc \in {"send1", "send2"} /\ prod'[p].pc = "idle"

\* Nothing has been enqueued since producer p entered its logf call
Uncontended(p) == Len(enqueued) = sender[prod[p].id].mark

\* C14 (the new message is dropped only under producer contention): when no
\* producer has enqueued anything since a logf call passed its guard, the
\* enqueue attempt that ends the call puts the call's message at the tail of
\* the queue, whatever the queue held at entry and whatever the consumer has
\* received meanwhile; so a call that drops its own message has seen another
\* producer enqueue during the call.
C14_DropOnlyUnderContention ==
  /\ [][ \A p \in TaskProducers :
           (EndsCall(p) /\ Uncontended(p)) =>
             /\ queues' = [queues EXCEPT ![_queue].items = Append(@, prod[p].m)]
             /\ lost'[prod[p].id] = lost[prod[p].id] ]_vars
  /\ [](\A i \in 1..nmsgs :
          Msg(i) \in lost[i] /\ sender[i].by \in TaskProducers =>
            Len(enqueued) > sender[i].mark)

\* Capacity 1: the call of "B" found "A" in the queue, the consumer received
\* "A" before the eviction attempt, which found nothing, and the second
\* attempt has put "B" into the queue; the call of "C" then evicted "B" and
\* put "C" there.  Nobody else enqueued during either call.
C14_Witness ==
  /\ LiveQueue(_queue)
  /\ queues[_queue].cap = 1
  /\ OnlyProducer("t1")
  /\ ProducersIdle
  /\ nmsgs = 3
  /\ received = <<Msg(1)>>
  /\ enqueued = <<Msg(1), Msg(2), Msg(3)>>
  /\ lost = <<{}, {}, {Msg(2)}>>
  /\ queues[_queue].items = <<Msg(3)>>

\* a can be had from b by leaving elements out
RECURSIVE IsSubseq(_, _)
IsSubseq(a, b) ==
  IF a = << >> THEN TRUE
  ELSE IF b = << >> THEN FALSE
  ELSE IF Head(a) = Head(b) THEN IsSubseq(Tail(a), Tail(b))
  ELSE IsSubseq(a, Tail(b))

\* The call that sent text t
CallOf(t) == CHOOSE n \in 1..nmsgs : Msg(n) = t

\* The messages that were in a queue and were taken out of it by an eviction
Evicted == {t \in UNION {lost[i] : i \in 1..nmsgs} : \E k \in 1..Len(enqueued) : enqueued[k] = t}

\* C15 (FIFO delivery): the messages the consumer has received are, in the
\* order of their reception, a subsequence of the messages in the order of
\* their enqueueing, none of them twice; the messages of one producer are
\* received in the order of that producer's calls; and as long as the queue
\* lives, the enqueued messages that were not evicted are, in enqueue order,
\* the received ones followed by the ones the queue holds.
C15_FifoDelivery ==
  /\ IsSubseq(received, enqueued)
  /\ \A i, j \in 1..Len(received) :
       i < j =>
         /\ received[i] # received[j]
         /\ sender[CallOf(received[i])].by = sender[CallOf(received[j])].by
              => CallOf(received[i]) < CallOf(received[j])
  /\ LiveQueue(_queue) =>
       LET Kept(t) == t \notin Evicted
       IN  SelectSeq(enqueued, Kept) = received \o queues[_queue].items

\* Capacity 1, three producers: the interrupt's "A" was evicted by the call of
\* "B", and "B" and "C", of two task producers, were received in that order.
C15_Witness ==
  /\ nmsgs = 3
  /\ sender[1].by = "isr" /\ sender[2].by = "t1" /\ sender[3].by = "t2"
  /\ enqueued = <<Msg(1), Msg(2), Msg(3)>>
  /\ lost[2] = {Msg(1)}
  /\ received = <<Msg(2), Msg(3)>>

\* The calls consumer c has made on the display since its last receive, by
\* name and vertical position
Calls(c) == [j \in 1..Len(tasks[c].ops) |-> <<tasks[c].ops[j].op, tasks[c].ops[j].y>>]

\* The calls of a frame up to and with row k-1, and with the present if `done`
Frame(k, done) ==
  [j \in 1..(1 + 2 * k + (IF done THEN 1 ELSE 0)) |->
     IF j = 1 THEN <<"clearDisplay", 0>>
     ELSE IF j = 2 * k + 2 THEN <<"display", 0>>
     ELSE IF j % 2 = 0 THEN <<"fillRect", ((j - 2) \div 2) * LINE_HEIGHT>>
     ELSE <<"print", ((j - 3) \div 2) * LINE_HEIGHT>>]

\* Consumer c has received a message and not yet presented its frame
Rendering(c) == tasks[c].pc \in {"store", "clear", "row", "present"}

\* C16 (one frame per message): a consumer that has received nothing has made
\* no call on the display; after each receive its calls are, in this order, one
\* clearDisplay, for each row i = 0..L-1 in increasing order one fillRect and
\* then one print at y = 8i, and one display(); at every point the number of
\* its display() calls is the number of messages received less the one whose
\* frame is still being rendered.
C16_OneFramePerMessage ==
  \A c \in Ids :
    LET t == tasks[c] IN
      /\ t.pc \in {"none", "start", "deleted"} => t.ops = << >> /\ t.presents = 0
      /\ t.pc \in {"recv", "blocked"} =>
           /\ t.presents = Len(received)
           /\ Calls(c) = IF Len(received) = 0 THEN << >> ELSE Frame(t.LINES, TRUE)
      /\ Rendering(c) =>
           /\ t.presents = Len(received) - 1
           /\ t.pc \in {"store", "clear"} => Calls(c) = << >>
           /\ t.pc = "row" => t.i < t.LINES /\ Calls(c) = Frame(t.i, FALSE)
           /\ t.pc = "present" => Calls(c) = Frame(t.LINES, FALSE)

\* Two rows: the second message has been received and row 0 of its frame
\* drawn; one display() so far.
C16_Witness ==
  /\ tasks[1].LINES = 2
  /\ Len(received) = 2
  /\ tasks[1].pc = "row"
  /\ tasks[1].i = 1
  /\ tasks[1].presents = 1
  /\ Len(tasks[1].ops) = 3

\* The n-th received message, the empty string when there is none
ReceivedOrBlank(n) == IF n >= 1 THEN received[n] ELSE Blank

\* The print call for row i in the list of calls of a complete frame
PrintOf(c, i) == tasks[c].ops[2 * i + 3]

\* C17 (row mapping of each frame): a running consumer has 1 <= L <= 16 rows
\* whatever the display height; once it has stored a message its write index
\* is within [0, L), and so is every index of the row loop; rows L and beyond
\* of the line buffer are never written; and when it has rendered the n-th
\* received message, the text printed at row i (at y = 8i), and shown there
\* when the panel has that row, is the (n-(L-1-i))-th received message, the
\* empty string when that number is below 1.
C17_RowMapping ==
  \A c \in Ids :
    LET t == tasks[c]
        L == t.LINES
        n == Len(received)
    IN  t.pc \in {"recv", "blocked", "store", "clear", "row", "present"} =>
          /\ L \in 1..MAX_LINES
          /\ (_height >= LINE_HEIGHT /\ _height < LINE_HEIGHT * MAX_LINES)
               => L = _height \div LINE_HEIGHT
          /\ \A r \in (L + 1)..MAX_LINES : lines[r] = Blank
          /\ (n >= 1 /\ t.pc # "store") =>
               /\ t.writeIndex \in 0..(L - 1)
               /\ t.writeIndex = (n - 1) % L
          /\ t.pc = "row" => RowIndex(t.writeIndex, L, t.i) \in 0..(L - 1)
          /\ (n >= 1 /\ ConsumerIdle(c)) =>
               \A i \in 0..(L - 1) :
                 /\ PrintOf(c, i).op = "print"
                 /\ PrintOf(c, i).y = i * LINE_HEIGHT
                 /\ PrintOf(c, i).txt = ReceivedOrBlank(n - (L - 1 - i))
                 /\ (LiveDisplay(_display) /\ i < Len(Shown))
                      => Shown[i + 1] = ReceivedOrBlank(n - (L - 1 - i))

\* Three rows, four messages rendered: the rows show the second, third and
\* fourth received message.
C17_Witness ==
  /\ tasks[1].LINES = 3
  /\ Len(received) = 4
  /\ ConsumerIdle(1)
  /\ LiveDisplay(_display)
  /\ Shown = <<received[2], received[3], received[4]>>
  /\ tasks[1].writeIndex = 0

\* A consumer task has been created and has not deleted itself
ConsumerExists == \E c \in Ids : tasks[c].pc \notin {"none", "deleted"}

\* The step is one of a begin call / of a producer call
BeginStep == bpc' # bpc \/ nbegins' # nbegins
ProducerStep == CallStep \/ prod' # prod

\* C18 as the spec states it: while a consumer task exists, no step of begin,
\* logf or logFromISR changes the display handle, a display object or the
\* line buffer.
C18_ConsumerExclusive ==
  [][ (ConsumerExists /\ (BeginStep \/ ProducerStep)) =>
        /\ _display' = _display
        /\ displays' = displays
        /\ lines' = lines
        /\ initOnce' = initOnce ]_vars

\* C19 as the spec states it: a logf or logFromISR call made while a begin
\* call that has not returned is under way, no begin having succeeded before,
\* enqueues nothing and starts no enqueue attempt, logFromISR returns
\* pdFALSE; and a queue that begin has deleted never held a message.
C19_NoAcceptanceDuringBegin ==
  /\ [][ (CallStep /\ bpc # "idle" /\ ~everOk) =>
           /\ queues' = queues
           /\ prod' = prod
           /\ (IsrStep => isrRes' = "pdFALSE") ]_vars
  /\ [](\A k \in Ids : queues[k].state = "deleted" => queues[k].items = << >>)

\* The message of call n is in the queue / has been evicted from it / is on
\* the bottom row of the frame on the panel
InQueue(n) ==
  /\ LiveQueue(_queue)
  /\ \E k \in 1..Len(queues[_queue].items) : queues[_queue].items[k] = Msg(n)
WasEvicted(n) == Msg(n) \in Evicted
OnBottomRow(t) ==
  /\ LiveDisplay(_display)
  /\ Len(Shown) >= 1
  /\ Shown[Len(Shown)] = t

\* No producer call is under way and the consumer has nothing left to do
Settled ==
  /\ LiveQueue(_queue)
  /\ queues[_queue].items = << >>
  /\ tasks[1].pc = "blocked"
  /\ enqueued # << >> => OnBottomRow(enqueued[Len(enqueued)])

\* C20 (accepted messages are eventually shown): with the consumer scheduled
\* fairly, once begin has succeeded every message in the queue is later on
\* the bottom row of the frame on the panel, or is evicted; and if from some
\* point on no producer call is made or under way, then from some point on
\* the queue is empty, the consumer is suspended in its receive and the last
\* message enqueued is on the bottom row.
C20_EventuallyShown ==
  /\ \A n \in 1..MaxMsgs :
       (lastBegin = "true" /\ InQueue(n)) ~> (WasEvicted(n) \/ OnBottomRow(Msg(n)))
  /\ \A k \in 0..MaxMsgs :
       <>[](lastBegin = "true" /\ ProducersIdle /\ nmsgs = k) => <>[]Settled

\* Three messages into a queue of two: the first was evicted, the other two
\* were rendered, and the consumer waits with the last one on the bottom row.
C20_Witness ==
  /\ lastBegin = "true"
  /\ ProducersIdle
  /\ nmsgs = MaxMsgs
  /\ WasEvicted(1)
  /\ received = <<Msg(2), Msg(3)>>
  /\ Settled
  /\ OnBottomRow(Msg(3))

====
